---- MODULE Spec2Model ----
(***************************************************************************)
(* CourseRepository (src/src/repositories/course_repository.py): the data  *)
(* access object that maps Course objects onto the three tables Courses,   *)
(* Periods and Requirements of one SQLite connection.                      *)
(*                                                                         *)
(* A table is a bag (multiset) of rows: no table is assumed to reject a    *)
(* duplicate row, so that "exactly one row" is something the repository's  *)
(* own statements have to establish.                                       *)
(***************************************************************************)
EXTENDS Integers, Sequences, Bags

\* Course ids the callers use and the database hands out: 1..MaxId.
MaxId == 2
\* The sentinel id of a course that has not been saved yet.
NoId == -1

CourseIds == 1..MaxId

\* The name, credits and timing of the courses the callers save.
CourseData ==
    { [name |-> "a", credits |-> 5, timing |-> {1, 2}],
      [name |-> "b", credits |-> 3, timing |-> {2, 3}] }

VARIABLES
    Courses,        \* bag of rows [id, name, credits]
    Periods,        \* bag of rows [course_id, period]
    Requirements,   \* bag of rows [course_id, requirement_id]
    op              \* the last repository call: its name, argument and outcome

vars == <<Courses, Periods, Requirements, op>>

\* The database as the connection sees it.
db == [Courses |-> Courses, Periods |-> Periods, Requirements |-> Requirements]

\* find_by_id's result when no Courses row matches.
None == [none |-> TRUE]

\* entities.course.Course(name, credits, timing, requirements, id)
Course(name, credits, timing, requirements, id) ==
    [id |-> id, name |-> name, credits |-> credits,
     timing |-> timing, requirements |-> requirements]

\* The Course objects handed to create: unsaved ones and ones with an id.
CourseInputs ==
    { Course(data.name, data.credits, data.timing, r, i) :
        data \in CourseData,
        r \in SUBSET CourseIds,
        i \in CourseIds \cup {NoId} }

-----------------------------------------------------------------------------
\* SQL statements on a table.

\* INSERT INTO table VALUES row
Insert(table, row) == table (+) SetToBag({row})

\* DELETE FROM table WHERE ..., matching is the set of distinct rows the
\* WHERE clause selects.
DeleteRows(table, matching) ==
    [row \in DOMAIN table \ matching |-> table[row]]

\* Number of rows of table among the distinct rows matching.
RECURSIVE CountRows(_, _)
CountRows(table, matching) ==
    IF matching = {} THEN 0
    ELSE LET row == CHOOSE x \in matching : TRUE
         IN  table[row] + CountRows(table, matching \ {row})

Max(S) == CHOOSE x \in S : \A y \in S : y <= x
Min(S) == CHOOSE x \in S : \A y \in S : x <= y

\* lastrowid taken as the number of rows plus one.
lastrowid_row_count(d) == BagCardinality(d.Courses) + 1

\* cursor.lastrowid after "INSERT INTO Courses (name, credits)": the id column
\* is the rowid, and SQLite gives a new row one more than the largest in use.
lastrowid(d) == Max({row.id : row \in DOMAIN d.Courses} \cup {0}) + 1

-----------------------------------------------------------------------------
\* The repository's methods, as functions of the database d.

find_requirements(d, id) ==
    {row.requirement_id :
        row \in {x \in DOMAIN d.Requirements : x.course_id = id}}

find_timing(d, id) ==
    {row.period : row \in {x \in DOMAIN d.Periods : x.course_id = id}}

find_by_id(d, id) ==
    LET rows == {x \in DOMAIN d.Courses : x.id = id}
    IN  IF rows = {} THEN None
        ELSE LET course_data == CHOOSE x \in rows : TRUE
             IN  Course(course_data.name, course_data.credits,
                        find_timing(d, id), find_requirements(d, id), id)

\* ORDER BY id DESC in place of ORDER BY id.
RECURSIVE OrderByIdDesc(_, _)
OrderByIdDesc(table, ids) ==
    IF ids = {} THEN <<>>
    ELSE LET id == Max(ids)
             n  == CountRows(table, {x \in DOMAIN table : x.id = id})
         IN  [i \in 1..n |-> id] \o OrderByIdDesc(table, ids \ {id})

\* SELECT id FROM Courses ORDER BY id: one id per row, ascending.
RECURSIVE OrderById(_, _)
OrderById(table, ids) ==
    IF ids = {} THEN <<>>
    ELSE LET id == Min(ids)
             n  == CountRows(table, {x \in DOMAIN table : x.id = id})
         IN  [i \in 1..n |-> id] \o OrderById(table, ids \ {id})

find_all(d) ==
    LET rows == OrderById(d.Courses, {row.id : row \in DOMAIN d.Courses})
    IN  [i \in 1..Len(rows) |-> find_by_id(d, rows[i])]

\* delete without its "DELETE FROM Periods" statement.
delete_keeps_periods(d, id) ==
    [Courses      |-> DeleteRows(d.Courses,
                         {x \in DOMAIN d.Courses : x.id = id}),
     Periods      |-> d.Periods,
     Requirements |-> DeleteRows(d.Requirements,
                         {x \in DOMAIN d.Requirements :
                             x.course_id = id \/ x.requirement_id = id})]

\* delete whose Requirements statement lacks "or requirement_id=:id".
delete_own_rows_only(d, id) ==
    [Courses      |-> DeleteRows(d.Courses,
                         {x \in DOMAIN d.Courses : x.id = id}),
     Periods      |-> DeleteRows(d.Periods,
                         {x \in DOMAIN d.Periods : x.course_id = id}),
     Requirements |-> DeleteRows(d.Requirements,
                         {x \in DOMAIN d.Requirements : x.course_id = id})]

delete(d, id) ==
    [Courses      |-> DeleteRows(d.Courses,
                         {x \in DOMAIN d.Courses : x.id = id}),
     Periods      |-> DeleteRows(d.Periods,
                         {x \in DOMAIN d.Periods : x.course_id = id}),
     Requirements |-> DeleteRows(d.Requirements,
                         {x \in DOMAIN d.Requirements :
                             x.course_id = id \/ x.requirement_id = id})]

\* delete_all that empties the Courses table only.
delete_all_courses_only(d) ==
    [Courses      |-> EmptyBag,
     Periods      |-> d.Periods,
     Requirements |-> d.Requirements]

delete_all(d) ==
    [Courses |-> EmptyBag, Periods |-> EmptyBag, Requirements |-> EmptyBag]

\* The rows __write_timing inserts for course.
timing_rows(course) ==
    {[course_id |-> course.id, period |-> p] : p \in course.timing}

\* The rows __write_requirements inserts for course.
requirement_rows(course) ==
    {[course_id |-> course.id, requirement_id |-> r] :
        r \in course.requirements}

write_timing(d, course) ==
    [d EXCEPT !.Periods = @ (+) SetToBag(timing_rows(course))]

\* __write_requirements with the two columns of the row exchanged.
write_requirements_swapped(d, course) ==
    [d EXCEPT !.Requirements = @ (+) SetToBag(
        {[course_id |-> r, requirement_id |-> course.id] :
            r \in course.requirements})]

write_requirements(d, course) ==
    [d EXCEPT !.Requirements = @ (+) SetToBag(requirement_rows(course))]

\* create's first step without the delete of an already stored version.
write_course_no_delete(d, course) ==
    LET saved == IF course.id = NoId THEN [course EXCEPT !.id = lastrowid(d)]
                 ELSE course
    IN  [db     |-> [d EXCEPT !.Courses = Insert(@,
                        [id |-> saved.id, name |-> saved.name,
                         credits |-> saved.credits])],
         course |-> saved]

\* Lines 31-47: the Courses row, after the old version is deleted on update.
\* Returns the database and the course with the id it is stored under.
write_course(d, course) ==
    IF course.id = NoId
    THEN LET saved == [course EXCEPT !.id = lastrowid(d)]
         IN  [db     |-> [d EXCEPT !.Courses = Insert(@,
                             [id |-> saved.id, name |-> saved.name,
                              credits |-> saved.credits])],
              course |-> saved]
    ELSE LET d0 == IF find_by_id(d, course.id) # None
                   THEN delete(d, course.id) ELSE d
         IN  [db     |-> [d0 EXCEPT !.Courses = Insert(@,
                             [id |-> course.id, name |-> course.name,
                              credits |-> course.credits])],
              course |-> course]

create(d, course) ==
    LET first == write_course(d, course)
    IN  [db     |-> write_requirements(write_timing(first.db, first.course),
                                       first.course),
         course |-> first.course]


\* A create_raises that restores the database it was called with.
create_raises_rollback(d, course, step) == [db |-> d, course |-> course]

\* create when the database driver raises on the first statement of one of
\* its steps: "courses" is the INSERT INTO Courses, "timing" is __write_timing
\* and "requirements" is __write_requirements. The exception leaves create at
\* once, so the later steps do not run; what the earlier steps committed (the
\* delete of the old version, line 47, line 63) stays.
create_raises(d, course, step) ==
    LET d0    == IF course.id # NoId /\ find_by_id(d, course.id) # None
                 THEN delete(d, course.id) ELSE d
        first == write_course(d, course)
    IN  CASE step = "courses" ->
               [db |-> d0, course |-> course]
          [] step = "timing" ->
               [db |-> first.db, course |-> first.course]
          [] step = "requirements" ->
               [db     |-> write_timing(first.db, first.course),
                course |-> first.course]

Steps == {"courses", "timing", "requirements"}

-----------------------------------------------------------------------------
Init ==
    /\ Courses = EmptyBag
    /\ Periods = EmptyBag
    /\ Requirements = EmptyBag
    /\ op = [name |-> "init"]

SetDb(d) ==
    /\ Courses' = d.Courses
    /\ Periods' = d.Periods
    /\ Requirements' = d.Requirements

\* Some other course lists id among its requirements.
IsRequired(d, id) ==
    \E row \in DOMAIN d.Requirements :
        row.requirement_id = id /\ row.course_id # id

\* The course stored under id has both Periods and Requirements rows.
HasRows(d, id) == find_timing(d, id) # {} /\ find_requirements(d, id) # {}

\* The stored version of course has a period and a requirement course lacks.
Shrinks(d, course) ==
    /\ find_timing(d, course.id) \ course.timing # {}
    /\ find_requirements(d, course.id) \ course.requirements # {}

\* create(course) returns.
Create ==
    \E course \in CourseInputs :
        /\ course.id = NoId => lastrowid(db) <= MaxId
        /\ LET r == create(db, course)
           IN  /\ SetDb(r.db)
               /\ op' = [name     |-> "create",
                         course   |-> course,
                         result   |-> r.course,
                         stored   |-> find_by_id(db, course.id) # None,
                         shrinks  |-> Shrinks(db, course)]

\* create(course) raises a database-driver exception in step.
CreateRaises ==
    \E course \in CourseInputs, step \in Steps :
        /\ course.id = NoId => lastrowid(db) <= MaxId
        /\ LET r == create_raises(db, course, step)
           IN  /\ SetDb(r.db)
               /\ op' = [name   |-> "create_raises",
                         course |-> course,
                         result |-> r.course,
                         step   |-> step,
                         stored |-> find_by_id(db, course.id) # None]

Delete ==
    \E id \in CourseIds :
        /\ SetDb(delete(db, id))
        /\ op' = [name     |-> "delete",
                  id       |-> id,
                  stored   |-> find_by_id(db, id) # None,
                  required |-> IsRequired(db, id),
                  owned    |-> HasRows(db, id)]

DeleteAll ==
    /\ SetDb(delete_all(db))
    /\ op' = [name |-> "delete_all", stored |-> Courses # EmptyBag]

Next == Create \/ Delete \/ DeleteAll

\* Every call returns.
Spec == Init /\ [][Next]_vars

NextFault ==
    \/ op.name # "create_raises" /\ Create
    \/ op.name # "create_raises" /\ Delete
    \/ op.name # "create_raises" /\ DeleteAll
    \/ op.name # "create_raises" /\ CreateRaises

\* create may raise a database-driver exception, which nothing catches: it ends
\* the run.
SpecFault == Init /\ [][NextFault]_vars

-----------------------------------------------------------------------------
\* The Courses rows stored under id, and the ids in use.
CourseRows(d, id) == CountRows(d.Courses, {x \in DOMAIN d.Courses : x.id = id})
StoredIds(d) == {row.id : row \in DOMAIN d.Courses}

\* The rows of table that belong to course id.
RowsOf(table, id) == DeleteRows(table, {x \in DOMAIN table : x.course_id # id})

\* Two courses agree on name, credits, period set and requirement set.
SameContent(c1, c2) ==
    /\ c1.name = c2.name
    /\ c1.credits = c2.credits
    /\ c1.timing = c2.timing
    /\ c1.requirements = c2.requirements

\* C1: right after r = create(c), find_by_id(r.id) is a course with c's name,
\* credits, period set and requirement set, whether c was unsaved (id -1), had
\* an id not yet stored or an id already stored.
C1_RoundTrip ==
    op.name = "create" =>
        LET found == find_by_id(db, op.result.id)
        IN  found # None /\ SameContent(found, op.course)

\* An update whose course requires itself has been saved.
C1_Witness ==
    /\ op.name = "create"
    /\ op.stored
    /\ op.course.id \in op.course.requirements
    /\ op.course.timing # {}

\* C2: after delete(id) no Courses row has that id, no Periods row and no
\* Requirements row has it as course_id, and find_by_id(id) is None.
C2_DeleteRemovesRows ==
    op.name = "delete" =>
        /\ CourseRows(db, op.id) = 0
        /\ RowsOf(Periods, op.id) = EmptyBag
        /\ RowsOf(Requirements, op.id) = EmptyBag
        /\ find_by_id(db, op.id) = None

\* A stored course with periods and requirements has been deleted.
C2_Witness == op.name = "delete" /\ op.stored /\ op.owned

\* C3: every Periods row and every Requirements row has the course_id of an
\* existing Courses row.
C3_Ownership ==
    /\ \A row \in DOMAIN Periods : row.course_id \in StoredIds(db)
    /\ \A row \in DOMAIN Requirements : row.course_id \in StoredIds(db)

\* A course with rows of its own was deleted and another course's rows remain.
C3_Witness ==
    /\ op.name = "delete" /\ op.stored /\ op.owned
    /\ Periods # EmptyBag
    /\ Requirements # EmptyBag

\* C4: after create(c) with the id of a stored course, the Periods rows of c.id
\* are exactly c.timing, the Requirements rows of c.id are exactly
\* c.requirements, each once, and exactly one Courses row has that id.
C4_UpdateReplaces ==
    op.name = "create" /\ op.stored =>
        /\ RowsOf(Periods, op.course.id) = SetToBag(timing_rows(op.course))
        /\ RowsOf(Requirements, op.course.id) =
               SetToBag(requirement_rows(op.course))
        /\ CourseRows(db, op.course.id) = 1

\* An update has dropped a period and a requirement of the stored version.
C4_Witness == op.name = "create" /\ op.stored /\ op.shrinks

C6_FindAll ==
    LET all == find_all(db)
    IN  /\ Len(all) = BagCardinality(Courses)
        /\ \A i \in 1..Len(all) :
              all[i] # None /\ all[i] = find_by_id(db, all[i].id)
        /\ \A i, j \in 1..Len(all) : i < j => all[i].id < all[j].id
        /\ {all[i].id : i \in 1..Len(all)} = StoredIds(db)
        /\ op.name = "delete_all" => all = <<>>

\* find_all lists two courses.
C6_Witness == Len(find_all(db)) >= 2

\* C7: when create raises in a later step, the rows its earlier steps committed
\* are in the database and the later steps' rows are not: the Courses row once
\* __write_timing or __write_requirements raises, all Periods rows too once
\* __write_requirements raises; and the old version of an updated course is
\* gone already when the INSERT INTO Courses raises.
C7_PartialCommit ==
    op.name = "create_raises" =>
        /\ op.step \in {"timing", "requirements"} =>
              /\ CourseRows(db, op.result.id) = 1
              /\ find_by_id(db, op.result.id).name = op.course.name
              /\ find_by_id(db, op.result.id).credits = op.course.credits
        /\ op.step = "timing" =>
              /\ find_timing(db, op.result.id) \subseteq op.course.timing
              /\ find_requirements(db, op.result.id) = {}
        /\ op.step = "requirements" =>
              /\ find_timing(db, op.result.id) = op.course.timing
              /\ find_requirements(db, op.result.id)
                    \subseteq op.course.requirements
        /\ op.step = "courses" /\ op.stored =>
              find_by_id(db, op.course.id) = None

\* __write_requirements raised for a course that was not stored before: its
\* Courses and Periods rows are in the database.
C7_Witness ==
    /\ op.name = "create_raises"
    /\ op.step = "requirements"
    /\ ~op.stored
    /\ op.course.requirements # {}
    /\ find_timing(db, op.result.id) # {}

\* C8: create(c) with the id of a stored course leaves every other stored
\* course as find_by_id returned it before the call.
C8_UpdateFrame ==
    [][op'.name = "create" /\ op'.stored =>
        \A id \in StoredIds(db) \ {op'.course.id} :
            find_by_id(db', id) = find_by_id(db, id)]_vars

\* C9: after delete(id) no Requirements row has requirement_id = id, and every
\* other course keeps its name, credits, periods and its other requirements.
C9_NoEdgeToDeleted ==
    [][op'.name = "delete" =>
        /\ \A row \in DOMAIN Requirements' : row.requirement_id # op'.id
        /\ \A id \in StoredIds(db) \ {op'.id} :
              LET before == find_by_id(db, id)
                  after  == find_by_id(db', id)
              IN  /\ after # None
                  /\ after.name = before.name
                  /\ after.credits = before.credits
                  /\ after.timing = before.timing
                  /\ after.requirements = before.requirements \ {op'.id}]_vars

\* A course that another, remaining course required has been deleted.
C9_Witness ==
    /\ op.name = "delete" /\ op.stored /\ op.required
    /\ Courses # EmptyBag

====
